---- MODULE Spec2Model ----
(***************************************************************************)
(* Model of the fallback embedding service                                 *)
(* (embedding-server/simple_embedding_server.py): text normalisation,      *)
(* hash-based vector synthesis, clamped cosine similarity and the          *)
(* synchronous HTTP request handler.                                       *)
(*                                                                         *)
(* Texts are sequences of characters, each named by a string (a Hangul     *)
(* syllable by its code point).  Floats are modelled in fixed point, every *)
(* arithmetic operation rounding to the nearest representable value as     *)
(* IEEE arithmetic does: raw vector components in units of 1/Milli,        *)
(* normalised components in units of 1/Fix, dot products and similarities  *)
(* in units of 1/One.                                                      *)
(***************************************************************************)
EXTENDS Integers, Sequences, FiniteSets, Bags, TLC

VARIABLES
  seed,      \* the salt of hash() in the running process
  serving,   \* serve_forever is running
  pc,        \* "idle", "handling" (handler constructed) or "responded"
  request,   \* the request of the current handler
  model,     \* self.model of the current handler
  response,  \* what the current handler wrote
  failed     \* an earlier request of this process ended in a 4xx or 5xx

vars == <<seed, serving, pc, request, model, response, failed>>

\* ---------------------------------------------------------------- bounds
MaxTexts == 2      \* longest texts list of an /embed request
NumSeeds == 2      \* number of distinct per-process hash salts
MaxElapsed == 1    \* largest processing_time reading

\* ------------------------------------------------------- program constants
Dimension == 768
Milli == 1000
MaxSeqLength == 512

\* fixed-point units of a normalised component and of a similarity
Fix == 10 * Milli
One == Fix * Fix

\* modulus and multiplier of the modelled string hash
HashMod == 46337
HashBase == 131

\* ------------------------------------------------------------- characters
Latin == {"a", "b", "c", "d", "A", "B"}
Hangul == {"U+AC00", "U+B098"}
Digits == {"0", "1", "2", "3", "4", "5", "6", "7", "8", "9"}
Whitespace == {" ", "\t"}

DigitChar == <<"0", "1", "2", "3", "4", "5", "6", "7", "8", "9">>

CodePoint ==
  ("a" :> 97) @@ ("b" :> 98) @@ ("c" :> 99) @@ ("d" :> 100) @@
  ("A" :> 65) @@ ("B" :> 66) @@ ("U+AC00" :> 44032) @@ ("U+B098" :> 45208) @@
  (" " :> 32) @@ ("\t" :> 9) @@ ("!" :> 33) @@ ("?" :> 63) @@
  ("0" :> 48) @@ ("1" :> 49) @@ ("2" :> 50) @@ ("3" :> 51) @@ ("4" :> 52) @@
  ("5" :> 53) @@ ("6" :> 54) @@ ("7" :> 55) @@ ("8" :> 56) @@ ("9" :> 57)

ord(c) == CodePoint[c]

lower(c) == CASE c = "A" -> "a" [] c = "B" -> "b" [] OTHER -> c

\* str(i) for a non-negative integer
RECURSIVE str(_)
str(i) == IF i < 10 THEN <<DigitChar[i + 1]>>
          ELSE str(i \div 10) \o <<DigitChar[(i % 10) + 1]>>

\* ------------------------------------------------------------- Normalizer
\* re.sub(r'[^U+AC00-U+D7A3 a-zA-Z0-9\s]', ' ', text.lower())
Cleaned(text) ==
  [k \in 1..Len(text) |->
     LET c == lower(text[k])
     IN IF c \in Hangul \cup Latin \cup Digits \cup Whitespace THEN c ELSE " "]

\* text.split(): maximal runs of non-whitespace characters
RECURSIVE Split(_, _, _)
Split(text, k, word) ==
  IF k > Len(text)
  THEN IF word = <<>> THEN <<>> ELSE <<word>>
  ELSE IF text[k] \in Whitespace
       THEN IF word = <<>> THEN Split(text, k + 1, <<>>)
            ELSE <<word>> \o Split(text, k + 1, <<>>)
       ELSE Split(text, k + 1, Append(word, text[k]))

\* re.sub(r'\s+', ' ', text).strip(): the words joined by single spaces
RECURSIVE Join(_)
Join(words) ==
  IF words = <<>> THEN <<>>
  ELSE IF Len(words) = 1 THEN words[1]
  ELSE words[1] \o <<" ">> \o Join(Tail(words))

preprocess_text(text) == Join(Split(Cleaned(text), 1, <<>>))

tokenize(text) ==
  SelectSeq(Split(preprocess_text(text), 1, <<>>), LAMBDA w : Len(w) >= 2)

\* -------------------------------------------------------- fixed-point math
Round(n, d) == (2 * n + d) \div (2 * d)

Materialise(f) == f \o <<>>

\* sum(f) for a sequence f of non-negative numbers: the cardinality of the
\* bag holding f[k] + 1 copies of k, less one copy of every k
Sum(f) == BagCardinality(Materialise([k \in 1..Len(f) |-> f[k] + 1])) - Len(f)

RECURSIVE FloorSqrt(_, _, _)
FloorSqrt(n, lo, hi) ==
  IF lo >= hi THEN lo
  ELSE LET mid == (lo + hi + 1) \div 2
       IN IF mid * mid <= n THEN FloorSqrt(n, mid, hi)
          ELSE FloorSqrt(n, lo, mid - 1)

sqrt(n) ==
  LET r == FloorSqrt(n, 0, 46340)
  IN IF n - r * r > r THEN r + 1 ELSE r

\* ------------------------------------------------------ VectorSynthesizer
\* hash(): Python's string hash, salted with a value drawn when the process
\* starts, modelled as a salted polynomial hash.  HashStart is the salted
\* initial state, Absorb the state after the characters s[k..], Finalise
\* the hash value of a state, so that
\* hash(token + str(i)) = Finalise(Absorb(Absorb(HashStart, token), str(i))).
HashStart(salt) == (salt * 7919 + 17) % HashMod

RECURSIVE Absorb(_, _, _)
Absorb(h, s, k) ==
  IF k > Len(s) THEN h
  ELSE Absorb((h * HashBase + ord(s[k])) % HashMod, s, k + 1)

Finalise(h) == (h * h + h \div Milli) % HashMod

\* for every dimension index i, at position i + 1: the state after str(i)
\* from state 0, and HashBase to the power len(str(i))
DigitsHash == Materialise([k \in 1..Dimension |-> Absorb(0, str(k - 1), 1)])
DigitsShift ==
  Materialise([k \in 1..Dimension |->
                 IF k <= 10 THEN HashBase
                 ELSE IF k <= 100 THEN (HashBase * HashBase) % HashMod
                 ELSE (((HashBase * HashBase) % HashMod) * HashBase) % HashMod])

\* Absorb(h, str(i), 1)
AbsorbIndex(h, i) == (h * DigitsShift[i + 1] + DigitsHash[i + 1]) % HashMod

\* value of one dimension before vector normalisation, in units of 1/Milli;
\* prefix[j] is the hash state after the characters of tokens[j]
RECURSIVE DimSum(_, _, _)
DimSum(prefix, i, j) ==
  IF j > Len(prefix) THEN 0
  ELSE Round(Finalise(AbsorbIndex(prefix[j], i)) % Milli, j)
       + DimSum(prefix, i, j + 1)

DimValue(prefix, i) ==
  Round(DimSum(prefix, i, 1), IF Len(prefix) > 1 THEN Len(prefix) ELSE 1)

\* create_embedding dividing by the sum of the components, not the norm
create_embedding_l1(self, salt, text) ==
  LET tokens == tokenize(text)
      prefix == Materialise([j \in 1..Len(tokens) |->
                               Absorb(HashStart(salt), tokens[j], 1)])
      raw == Materialise([k \in 1..self.dimension |-> DimValue(prefix, k - 1)])
      total == Sum(raw)
  IN IF total > 0
     THEN Materialise([k \in 1..self.dimension |-> Round(raw[k] * Fix, total)])
     ELSE raw

create_embedding(self, salt, text) ==
  LET tokens == tokenize(text)
      prefix == Materialise([j \in 1..Len(tokens) |->
                               Absorb(HashStart(salt), tokens[j], 1)])
      raw == Materialise([k \in 1..self.dimension |-> DimValue(prefix, k - 1)])
      norm == sqrt(Sum([k \in 1..self.dimension |-> raw[k] * raw[k]]))
  IN IF norm > 0
     THEN Materialise([k \in 1..self.dimension |-> Round(raw[k] * Fix, norm)])
     ELSE raw

\* ------------------------------------------------------- SimilarityScorer
Min(a, b) == IF a < b THEN a ELSE b
Max(a, b) == IF a > b THEN a ELSE b

\* calculate_similarity returning the dot product as computed
calculate_similarity_unclamped(self, salt, text1, text2) ==
  LET emb1 == create_embedding(self, salt, text1)
      emb2 == create_embedding(self, salt, text2)
      n == Min(Len(emb1), Len(emb2))
  IN Sum([k \in 1..n |-> emb1[k] * emb2[k]])

calculate_similarity(self, salt, text1, text2) ==
  LET emb1 == create_embedding(self, salt, text1)
      emb2 == create_embedding(self, salt, text2)
      n == Min(Len(emb1), Len(emb2))
      dot_product == Sum([k \in 1..n |-> emb1[k] * emb2[k]])
  IN Max(0, Min(One, dot_product))

SimpleEmbeddingModel == [vocab |-> <<>>, idf |-> <<>>, dimension |-> Dimension]

\* ------------------------------------------------------------ JSON values
JStr(t) == [type |-> "str", val |-> t]
JNum(n) == [type |-> "num", val |-> n]
JList(l) == [type |-> "list", val |-> l]
JNull == [type |-> "null", val |-> 0]
JMissing == [type |-> "missing", val |-> 0]

\* Python truth value of a decoded JSON value
Truthy(v) ==
  CASE v.type = "str" -> v.val # <<>>
    [] v.type = "list" -> v.val # <<>>
    [] v.type = "num" -> v.val # 0
    [] OTHER -> FALSE

\* dict.get(key, default)
Get(v, default) == IF v.type = "missing" THEN default ELSE v

\* the values a for loop over v visits (v a list or a string)
Items(v) ==
  IF v.type = "list" THEN v.val
  ELSE [k \in 1..Len(v.val) |-> JStr(<<v.val[k]>>)]

\* ---------------------------------------------------------------- inputs
Seeds == 0..(NumSeeds - 1)
Elapsed == 0..MaxElapsed

Texts ==
  { <<>>,
    <<" ", " ">>,
    <<"!", "?">>,
    <<"a", " ", "b">>,
    <<"a", "b">>,
    <<" ", "A", "b", "!">>,
    <<"a", "b", " ", "c", "d">>,
    <<"c", "d", "\t", "a", "b">>,
    <<"U+AC00", "U+B098">> }

\* the texts that longer texts lists are made of
ListTexts ==
  { <<>>,
    <<" ", " ">>,
    <<"a", "b">>,
    <<"c", "d", "\t", "a", "b">> }

SeqsUpTo(S, n) == UNION {[1..k -> S] : k \in 0..n}

NoFields == [texts |-> JMissing, text1 |-> JMissing, text2 |-> JMissing]
Garbage == [kind |-> "garbage", fields |-> NoFields]
JsonArray == [kind |-> "array", fields |-> NoFields]
Object(f) == [kind |-> "object", fields |-> f]

TextsValues ==
  {JMissing, JNull, JNum(0), JNum(5), JStr(<<>>), JStr(<<"a", "b">>),
   JList(<<JNum(5)>>), JList(<<JStr(<<"a", "b">>), JNull>>)}
  \cup {JList(<<JStr(t)>>) : t \in Texts}
  \cup {JList(l) : l \in SeqsUpTo({JStr(t) : t \in ListTexts}, MaxTexts)}

TextValues == {JMissing, JNull, JNum(5)} \cup {JStr(t) : t \in Texts}

Bodies ==
  {Garbage, JsonArray}
  \cup {Object([NoFields EXCEPT !.texts = v]) : v \in TextsValues}
  \cup {Object([NoFields EXCEPT !.text1 = v[1], !.text2 = v[2]]) :
          v \in TextValues \X TextValues}

GetPaths == {"/", "/health", "/model-info", "/embed", "/nope"}
PostPaths == {"/embed", "/similarity", "/nope"}

Requests ==
  {[method |-> "GET", path |-> p, content_length |-> "absent", body |-> Garbage] :
     p \in GetPaths}
  \cup {[method |-> "OPTIONS", path |-> "/embed", content_length |-> "absent",
         body |-> Garbage]}
  \cup {[method |-> "POST", path |-> p, content_length |-> c, body |-> Garbage] :
          p \in PostPaths, c \in {"absent", "invalid"}}
  \cup {[method |-> "POST", path |-> p, content_length |-> "valid", body |-> b] :
          p \in PostPaths, b \in Bodies}

NoRequest == [method |-> "none", path |-> "", content_length |-> "absent",
              body |-> Garbage]

\* ---------------------------------------------------------- RequestService
CorsHeaders ==
  { <<"Access-Control-Allow-Origin", "*">>,
    <<"Access-Control-Allow-Methods", "GET, POST, OPTIONS">>,
    <<"Access-Control-Allow-Headers", "Content-Type">> }

send_response_json(data, status_code) ==
  [status |-> status_code,
   headers |-> {<<"Content-Type", "application/json">>} \cup CorsHeaders,
   body |-> [format |-> "json", data |-> data]]

\* BaseHTTPRequestHandler.send_error: an HTML error page
send_error(code, message) ==
  [status |-> code,
   headers |-> { <<"Content-Type", "text/html;charset=utf-8">>,
                 <<"Connection", "close">> },
   body |-> [format |-> "html", data |-> [code |-> code, message |-> message]]]

NoResponse ==
  [status |-> 0, headers |-> {}, body |-> [format |-> "none", data |-> <<>>]]

send_health_response ==
  send_response_json([status |-> "healthy", model_loaded |-> TRUE,
                      model_name |-> "simple-korean-embedding"], 200)

send_model_info(self) ==
  send_response_json([model_name |-> "simple-korean-embedding",
                      dimension |-> self.dimension,
                      max_seq_length |-> MaxSeqLength], 200)

send_root_response ==
  send_response_json([message |-> "Simple Korean Embedding Server",
                      model |-> "simple-korean-embedding",
                      status |-> "ready"], 200)

\* int(self.headers['Content-Length']); rfile.read; json.loads: the
\* exception text, or "" when the body decodes
LoadError(req) ==
  CASE req.content_length = "absent" -> "TypeError: int() argument is None"
    [] req.content_length = "invalid" -> "ValueError: invalid literal for int()"
    [] req.body.kind = "garbage" -> "JSONDecodeError: Expecting value"
    [] req.body.kind # "object" -> "AttributeError: 'list' object has no attribute 'get'"
    [] OTHER -> ""

\* handle_embed_request appending the vectors in reverse order
handle_embed_request_reversed(self, salt, req) ==
  IF LoadError(req) # ""
  THEN send_response_json([error |-> LoadError(req)], 500)
  ELSE
    LET texts == Get(req.body.fields.texts, JList(<<>>))
    IN IF ~Truthy(texts)
       THEN send_response_json([error |-> "No texts provided"], 400)
       ELSE IF texts.type \notin {"list", "str"}
       THEN send_response_json(
              [error |-> "TypeError: 'int' object is not iterable"], 500)
       ELSE IF \E k \in 1..Len(Items(texts)) : Items(texts)[k].type # "str"
       THEN send_response_json(
              [error |-> "AttributeError: object has no attribute 'lower'"], 500)
       ELSE
         LET n == Len(Items(texts))
             embeddings ==
               [k \in 1..n |->
                  create_embedding(self, salt, Items(texts)[n + 1 - k].val)]
         IN send_response_json(
              [embeddings |-> embeddings,
               model_name |-> "simple-korean-embedding",
               dimension |-> self.dimension,
               processing_time |-> 0], 200)

\* the response without the clock reading; processing_time is measured by
\* the handler action
handle_embed_request(self, salt, req) ==
  IF LoadError(req) # ""
  THEN send_response_json([error |-> LoadError(req)], 500)
  ELSE
    LET texts == Get(req.body.fields.texts, JList(<<>>))
    IN IF ~Truthy(texts)
       THEN send_response_json([error |-> "No texts provided"], 400)
       ELSE IF texts.type \notin {"list", "str"}
       THEN send_response_json(
              [error |-> "TypeError: 'int' object is not iterable"], 500)
       ELSE IF \E k \in 1..Len(Items(texts)) : Items(texts)[k].type # "str"
       THEN send_response_json(
              [error |-> "AttributeError: object has no attribute 'lower'"], 500)
       ELSE
         LET embeddings ==
               [k \in 1..Len(Items(texts)) |->
                  create_embedding(self, salt, Items(texts)[k].val)]
         IN send_response_json(
              [embeddings |-> embeddings,
               model_name |-> "simple-korean-embedding",
               dimension |-> self.dimension,
               processing_time |-> 0], 200)

\* handle_similarity_request rejecting only when both texts are empty
handle_similarity_request_and(self, salt, req) ==
  IF LoadError(req) # ""
  THEN send_response_json([error |-> LoadError(req)], 500)
  ELSE
    LET text1 == Get(req.body.fields.text1, JStr(<<>>))
        text2 == Get(req.body.fields.text2, JStr(<<>>))
    IN IF ~Truthy(text1) /\ ~Truthy(text2)
       THEN send_response_json(
              [error |-> "Both text1 and text2 are required"], 400)
       ELSE IF text1.type # "str" \/ text2.type # "str"
       THEN send_response_json(
              [error |-> "AttributeError: object has no attribute 'lower'"], 500)
       ELSE send_response_json(
              [similarity |->
                 calculate_similarity(self, salt, text1.val, text2.val),
               processing_time |-> 0], 200)

\* handle_similarity_request reporting an undecodable request as a client
\* error
handle_similarity_request_400(self, salt, req) ==
  IF LoadError(req) # ""
  THEN send_response_json([error |-> LoadError(req)], 400)
  ELSE
    LET text1 == Get(req.body.fields.text1, JStr(<<>>))
        text2 == Get(req.body.fields.text2, JStr(<<>>))
    IN IF ~Truthy(text1) \/ ~Truthy(text2)
       THEN send_response_json(
              [error |-> "Both text1 and text2 are required"], 400)
       ELSE IF text1.type # "str" \/ text2.type # "str"
       THEN send_response_json(
              [error |-> "AttributeError: object has no attribute 'lower'"], 500)
       ELSE send_response_json(
              [similarity |->
                 calculate_similarity(self, salt, text1.val, text2.val),
               processing_time |-> 0], 200)

handle_similarity_request(self, salt, req) ==
  IF LoadError(req) # ""
  THEN send_response_json([error |-> LoadError(req)], 500)
  ELSE
    LET text1 == Get(req.body.fields.text1, JStr(<<>>))
        text2 == Get(req.body.fields.text2, JStr(<<>>))
    IN IF ~Truthy(text1) \/ ~Truthy(text2)
       THEN send_response_json(
              [error |-> "Both text1 and text2 are required"], 400)
       ELSE IF text1.type # "str" \/ text2.type # "str"
       THEN send_response_json(
              [error |-> "AttributeError: object has no attribute 'lower'"], 500)
       ELSE send_response_json(
              [similarity |->
                 calculate_similarity(self, salt, text1.val, text2.val),
               processing_time |-> 0], 200)

do_GET_response(self, req) ==
  CASE req.path = "/health" -> send_health_response
    [] req.path = "/model-info" -> send_model_info(self)
    [] req.path = "/" -> send_root_response
    [] OTHER -> send_error(404, "Not Found")

do_POST_response(self, salt, req) ==
  CASE req.path = "/embed" -> handle_embed_request(self, salt, req)
    [] req.path = "/similarity" -> handle_similarity_request(self, salt, req)
    [] OTHER -> send_error(404, "Not Found")

\* time.time() - start_time, as stored in the response data
WithProcessingTime(resp, elapsed) ==
  IF resp.status = 200 /\ resp.body.format = "json"
     /\ "processing_time" \in DOMAIN resp.body.data
  THEN [resp EXCEPT !.body.data.processing_time = elapsed]
  ELSE resp

IsFailure(resp) == resp.status >= 400

\* ----------------------------------------------------------------- actions
Init ==
  /\ seed \in Seeds
  /\ serving = TRUE
  /\ pc = "idle"
  /\ request = NoRequest
  /\ model = SimpleEmbeddingModel
  /\ response = NoResponse
  /\ failed = FALSE

\* a connection is accepted and EmbeddingRequestHandler.__init__ runs
Accept ==
  /\ serving
  /\ pc = "idle"
  /\ \E req \in Requests : request' = req
  /\ model' = SimpleEmbeddingModel
  /\ response' = NoResponse
  /\ pc' = "handling"
  /\ UNCHANGED <<seed, serving, failed>>

do_GET ==
  /\ pc = "handling"
  /\ request.method = "GET"
  /\ response' = do_GET_response(model, request)
  /\ pc' = "responded"
  /\ UNCHANGED <<seed, serving, request, model, failed>>

do_POST ==
  /\ pc = "handling"
  /\ request.method = "POST"
  /\ LET resp == do_POST_response(model, seed, request)
     IN \E elapsed \in Elapsed : response' = WithProcessingTime(resp, elapsed)
  /\ pc' = "responded"
  /\ UNCHANGED <<seed, serving, request, model, failed>>

\* a method without a do_ method: BaseHTTPRequestHandler answers 501
UnsupportedMethod ==
  /\ pc = "handling"
  /\ request.method \notin {"GET", "POST"}
  /\ response' = send_error(501, "Unsupported method")
  /\ pc' = "responded"
  /\ UNCHANGED <<seed, serving, request, model, failed>>

\* Finish in which a failed request stops the serve loop
Finish_fatal ==
  /\ pc = "responded"
  /\ pc' = "idle"
  /\ failed' = (failed \/ IsFailure(response))
  /\ serving' = (serving /\ ~IsFailure(response))
  /\ request' = NoRequest
  /\ response' = NoResponse
  /\ UNCHANGED <<seed, model>>

\* the connection is closed, the handler is discarded and serve_forever
\* waits for the next connection
Finish ==
  /\ pc = "responded"
  /\ pc' = "idle"
  /\ failed' = (failed \/ IsFailure(response))
  /\ request' = NoRequest
  /\ response' = NoResponse
  /\ UNCHANGED <<seed, serving, model>>

\* the process is stopped and started again: a new hash salt
Restart ==
  /\ pc = "idle"
  /\ seed' \in Seeds
  /\ serving' = TRUE
  /\ request' = NoRequest
  /\ model' = SimpleEmbeddingModel
  /\ response' = NoResponse
  /\ failed' = FALSE
  /\ pc' = "idle"

Next == Accept \/ do_GET \/ do_POST \/ UnsupportedMethod \/ Finish \/ Restart

Spec == Init /\ [][Next]_vars

\* ------------------------------------------------------------- properties
Responded == pc = "responded"
Posted(path) == Responded /\ request.method = "POST" /\ request.path = path
Decoded == request.content_length = "valid" /\ request.body.kind = "object"
Data == response.body.data
ErrorBody == response.body.format = "json" /\ DOMAIN Data = {"error"}
HasField(name) == response.body.format = "json" /\ name \in DOMAIN Data

IsBlank(t) == \A k \in 1..Len(t) : t[k] \in Whitespace
EmptyOrMissing(v) == v.type = "missing" \/ (v.type = "str" /\ v.val = <<>>)
NonEmptyString(v) == v.type = "str" /\ v.val # <<>>

\* texts is missing, or a list none of whose entries is non-empty after
\* trimming
NoValidText(v) ==
  \/ v.type = "missing"
  \/ /\ v.type = "list"
     /\ \A k \in 1..Len(v.val) : v.val[k].type = "str" /\ IsBlank(v.val[k].val)

Tolerance == One \div 1000
Near(x, y) == x - y <= Tolerance /\ y - x <= Tolerance

\* C1: POST /embed is rejected with a 400-class {error} response, and no
\* embeddings are returned, whenever texts is missing or has no entry that
\* is non-empty after trimming whitespace.
C1_BlankTextsRejected ==
  (Posted("/embed") /\ Decoded /\ NoValidText(request.body.fields.texts))
    => /\ response.status \in 400..499
       /\ ErrorBody
       /\ ~HasField("embeddings")

\* C2: POST /similarity is rejected with a 400-class {error} response and
\* no similarity whenever text1 or text2 is empty or missing; when both are
\* non-empty strings the response is 200 with a similarity field.
C2_SimilarityValidation ==
  (Posted("/similarity") /\ Decoded)
    => LET text1 == request.body.fields.text1
           text2 == request.body.fields.text2
       IN /\ (EmptyOrMissing(text1) \/ EmptyOrMissing(text2))
               => /\ response.status \in 400..499
                  /\ ErrorBody
                  /\ ~HasField("similarity")
          /\ (NonEmptyString(text1) /\ NonEmptyString(text2))
               => /\ response.status = 200
                  /\ HasField("similarity")

C2_Witness ==
  /\ Posted("/similarity") /\ Decoded
  /\ NonEmptyString(request.body.fields.text1)
  /\ EmptyOrMissing(request.body.fields.text2)
  /\ response.status = 400

\* C3: a successful POST /embed returns exactly one vector per requested
\* text, the k-th vector being the embedding of the k-th text, every vector
\* has length 768 and the dimension field is 768.
C3_OneVectorPerText ==
  (Posted("/embed") /\ response.status = 200)
    => LET items == Items(request.body.fields.texts)
       IN /\ Len(Data.embeddings) = Len(items)
          /\ \A k \in 1..Len(items) :
               /\ Len(Data.embeddings[k]) = 768
               /\ Data.embeddings[k]
                    = create_embedding(SimpleEmbeddingModel, seed, items[k].val)
          /\ Data.dimension = 768

C3_Witness ==
  /\ Posted("/embed") /\ response.status = 200
  /\ request.body.fields.texts.type = "list"
  /\ Len(Data.embeddings) = 2
  /\ Data.embeddings[1] # Data.embeddings[2]

\* C4: every response the service sends, for any method and path, success
\* or error, carries the three CORS headers.
C4_CorsOnEveryResponse == Responded => CorsHeaders \subseteq response.headers

\* C5: every response with a non-2xx status has a JSON body of the shape
\* {error: string}.
C5_ErrorBodyShape ==
  (Responded /\ response.status \notin 200..299) => ErrorBody

\* C6: a POST to /embed or /similarity whose body is not parseable JSON, or
\* which has no Content-Length header, is answered with a 500-class
\* response whose body is {error: <exception text>}; it is never answered
\* with 2xx and the exception does not leave the handler unanswered.
C6_MalformedIs500 ==
  (/\ Responded /\ request.method = "POST"
   /\ request.path \in {"/embed", "/similarity"}
   /\ \/ request.content_length = "absent"
      \/ request.content_length = "valid" /\ request.body.kind = "garbage")
    => /\ response # NoResponse
       /\ response.status \in 500..599
       /\ ErrorBody
       /\ Data.error = LoadError(request)

C6_Witness ==
  /\ Posted("/similarity")
  /\ request.content_length = "valid" /\ request.body.kind = "garbage"
  /\ response.status = 500

\* C7: the vector returned for a text is the vector any process returns for
\* it: it depends only on the text, not on the per-process hash salt.
C7_SaltIndependent ==
  (Posted("/embed") /\ response.status = 200)
    => LET items == Items(request.body.fields.texts)
       IN \A s \in Seeds : \A k \in 1..Len(items) :
            Data.embeddings[k]
              = create_embedding(SimpleEmbeddingModel, s, items[k].val)

SelfSimilarity ==
  /\ Posted("/similarity") /\ response.status = 200
  /\ request.body.fields.text1 = request.body.fields.text2

\* C8 (as stated): the similarity of any non-empty text with itself is
\* approximately 1.0, never 0, also for texts that are all punctuation or
\* whose words are all shorter than 2 characters.
C8_SelfSimilarityAnyText == SelfSimilarity => Near(Data.similarity, One)

\* C8 (amended): the similarity of a text with itself is approximately 1.0
\* when the text has a token of 2 or more characters after normalisation,
\* and exactly 0.0 when it has none.
C8_SelfSimilarityTokenised ==
  SelfSimilarity
    => IF tokenize(request.body.fields.text1.val) # <<>>
       THEN Near(Data.similarity, One)
       ELSE Data.similarity = 0

C8_Witness ==
  /\ SelfSimilarity
  /\ tokenize(request.body.fields.text1.val) # <<>>
  /\ Near(Data.similarity, One)

\* C9: the similarity of every successful /similarity response lies in the
\* closed interval [0.0, 1.0].
C9_SimilarityBounded ==
  (Posted("/similarity") /\ response.status = 200)
    => (0 <= Data.similarity /\ Data.similarity <= One)

C9_Witness ==
  /\ Posted("/similarity") /\ response.status = 200
  /\ request.body.fields.text1 # request.body.fields.text2
  /\ 0 < Data.similarity /\ Data.similarity < One

\* the response a process with the given salt sends to a request that is
\* the only one it ever receives
OnlyRequestResponse(salt, req) ==
  CASE req.method = "GET" -> do_GET_response(SimpleEmbeddingModel, req)
    [] req.method = "POST" -> do_POST_response(SimpleEmbeddingModel, salt, req)
    [] OTHER -> send_error(501, "Unsupported method")

\* C10: within one process every request receives the response (status and
\* body, ignoring processing_time) it would receive as the only request
\* ever sent, and the service keeps serving after a 400, 404 or 500.
C10_RequestIsolation ==
  /\ serving
  /\ Responded
       => WithProcessingTime(response, 0)
            = WithProcessingTime(OnlyRequestResponse(seed, request), 0)

C10_Witness ==
  /\ Responded /\ failed /\ serving
  /\ request.path = "/embed" /\ response.status = 200
====
